---- MODULE Spec2Model ----
(***************************************************************************)
(* Tsunami Sentinel dashboard: the feed normalizer (fetchTsunamiData,      *)
(* mapUsgsFeatureToEarthquakeEvent) and the alert evaluation effect of     *)
(* TsunamiDashboard, with the fetch cycle (loadData, handleRefresh,        *)
(* initialFetch) and the settings card around them.                        *)
(*                                                                         *)
(* Magnitudes and depths are numbers of tenths (7.5 is 75).  Timestamps    *)
(* are small naturals.  A string of the program is a TLA+ string; a text   *)
(* with placeholders is a sequence of strings, one per placeholder token   *)
(* or run of other text.                                                   *)
(***************************************************************************)
EXTENDS Integers, Sequences, FiniteSets, TLC

\* ------------------------------------------------------------------ bounds
MaxEventId == 2
MaxFeedLen == 3
MaxTime == 1
MaxCreated == 2
MaxBlock == 52

\* --------------------------------------------------------------- constants
\* const [alertSettings] default, minMagnitude: 7.0
DefaultMinMagnitude == 70
\* feature.properties.mag >= 7.5
AdvisoryMagnitude == 75
\* feature.properties.mag >= 6.5
InfoMagnitude == 65
\* .slice(0, 50)
MaxAlerts == 50
\* feature.properties.mag === null || typeof ... === 'undefined'
NoMag == -1

ErrorMessage == "Failed to fetch data. Please try again later."
NoError == "null"

\* -------------------------------------------------------------- sequences
Range(s) == {s[i] : i \in 1..Len(s)}

\* Array.prototype.slice(0, n)
Slice0(s, n) == IF Len(s) <= n THEN s ELSE SubSeq(s, 1, n)

\* ------------------------------------------------------------ the feed
\* One UsgsFeature.  The descriptive fields are fixed per id: the code only
\* copies them.
Feature(id, mag, tsunami, updated) ==
    [id |-> id,
     properties |-> [mag |-> mag, place |-> "place" \o ToString(id),
                     time |-> updated, updated |-> updated,
                     url |-> "url" \o ToString(id),
                     title |-> "title" \o ToString(id), tsunami |-> tsunami],
     geometry |-> [coordinates |-> <<10 * id, 20 * id, 100 + id>>]]

\* AlertLevelOf with the magnitude tests before the tsunami flag
AlertLevelByMagnitudeFirst(isTsunamiWarning, mag) ==
    IF mag >= AdvisoryMagnitude THEN "advisory"
    ELSE IF isTsunamiWarning THEN "warning"
    ELSE IF mag >= InfoMagnitude THEN "info"
    ELSE "none"

\* mapUsgsFeatureToEarthquakeEvent's classification
AlertLevelOf(isTsunamiWarning, mag) ==
    IF isTsunamiWarning THEN "warning"
    ELSE IF mag >= AdvisoryMagnitude THEN "advisory"
    ELSE IF mag >= InfoMagnitude THEN "info"
    ELSE "none"

NullEvent == [id |-> 0]

\* the EarthquakeEvent mapUsgsFeatureToEarthquakeEvent returns for a feature
\* with a magnitude
EarthquakeEvent(feature) ==
    LET lon == feature.geometry.coordinates[1]
        lat == feature.geometry.coordinates[2]
        depth == feature.geometry.coordinates[3]
        isTsunamiWarning == feature.properties.tsunami = 1
    IN [id |-> feature.id,
        title |-> feature.properties.title,
        updated |-> feature.properties.updated,
        link |-> feature.properties.url,
        location |-> feature.properties.place,
        magnitude |-> feature.properties.mag,
        depth |-> depth,
        lat |-> lat,
        lon |-> lon,
        isTsunamiWarning |-> isTsunamiWarning,
        rawSummary |-> feature.properties.title,
        alertLevel |-> AlertLevelOf(isTsunamiWarning, feature.properties.mag)]

\* mapUsgsFeatureToEarthquakeEvent without the test of the magnitude
mapUsgsFeatureWithoutMagnitudeTest(feature) == EarthquakeEvent(feature)

\* mapUsgsFeatureToEarthquakeEvent: an EarthquakeEvent, or NullEvent for a
\* feature without magnitude
mapUsgsFeatureToEarthquakeEvent(feature) ==
    IF feature.properties.mag = NoMag THEN NullEvent
    ELSE EarthquakeEvent(feature)

\* Array.prototype.map(mapUsgsFeatureToEarthquakeEvent)
MapFeatures(features) ==
    [i \in 1..Len(features) |-> mapUsgsFeatureToEarthquakeEvent(features[i])]

NotNull(event) == event # NullEvent

\* InsertByUpdated that puts e before its equals
InsertByUpdatedBeforeEquals(sorted, e) ==
    LET later == {i \in 1..Len(sorted) : sorted[i].updated <= e.updated}
        at == IF later = {} THEN Len(sorted) + 1
              ELSE CHOOSE i \in later : \A j \in later : i <= j
    IN SubSeq(sorted, 1, at - 1) \o <<e>> \o SubSeq(sorted, at, Len(sorted))

\* One insertion of the stable sort by (a, b) => b.updated - a.updated: e goes
\* before the first element that sorts after it, so after its equals.
InsertByUpdated(sorted, e) ==
    LET later == {i \in 1..Len(sorted) : sorted[i].updated < e.updated}
        at == IF later = {} THEN Len(sorted) + 1
              ELSE CHOOSE i \in later : \A j \in later : i <= j
    IN SubSeq(sorted, 1, at - 1) \o <<e>> \o SubSeq(sorted, at, Len(sorted))

\* The insertions of s[lo..hi], one by one in their order, into sorted (the
\* range is halved to keep the evaluation shallow).
RECURSIVE InsertRange(_, _, _, _)
InsertRange(sorted, s, lo, hi) ==
    IF lo > hi THEN sorted
    ELSE IF lo = hi THEN InsertByUpdated(sorted, s[lo])
    ELSE \* half is the value of the first half, evaluated once
         CHOOSE all \in
             {InsertRange(half, s, (lo + hi) \div 2 + 1, hi)
                : half \in {InsertRange(sorted, s, lo, (lo + hi) \div 2)}} : TRUE

\* Array.prototype.sort((a, b) => b.updated.getTime() - a.updated.getTime()),
\* a stable sort
SortByUpdatedDesc(s) == InsertRange(<<>>, s, 1, Len(s))

\* A response of the feed: kind is
\*   "transport"   fetch() rejects
\*   "status"      !response.ok
\*   "unparsable"  response.json() rejects
\*   "badrecord"   a features array with an element that has no properties
\*   "nulljson"    the JSON document null
\*   "nofeatures"  a JSON object without a features array
\*   "features"    a JSON object with a features array
Response(kind, features) == [kind |-> kind, features |-> features]

NoResponse == Response("none", <<>>)

ThrowingKinds == {"transport", "status", "unparsable", "badrecord"}

\* fetchTsunamiData: [threw, events]
fetchTsunamiData(response) ==
    IF response.kind \in ThrowingKinds
    THEN [threw |-> TRUE, events |-> <<>>]
    ELSE IF response.kind = "features"
    THEN [threw |-> FALSE,
          events |-> SortByUpdatedDesc(SelectSeq(MapFeatures(response.features), NotNull))]
    ELSE [threw |-> FALSE, events |-> <<>>]

\* ------------------------------------------------------------- settings
DefaultTemplate ==
    <<"ALERT: A magnitude ", "{magnitude}", " earthquake occurred near ",
      "{location}", " at ", "{time}", ". More details: ", "{link}">>

AlertSettings(minMagnitude, notificationsEnabled, recipients, emailTemplate) ==
    [minMagnitude |-> minMagnitude, notificationsEnabled |-> notificationsEnabled,
     recipients |-> recipients, emailTemplate |-> emailTemplate]

\* DashboardDefaultSettings with the recipient of the card's default
DashboardDefaultWithRecipient ==
    AlertSettings(DefaultMinMagnitude, TRUE, <<"example@email.com">>, DefaultTemplate)

\* the default TsunamiDashboard gives useLocalStorage('alertSettings', ...)
DashboardDefaultSettings ==
    AlertSettings(DefaultMinMagnitude, TRUE, <<>>, DefaultTemplate)

\* the default EmailSettingsCard gives useLocalStorage('alertSettings', ...)
CardDefaultSettings ==
    AlertSettings(DefaultMinMagnitude, TRUE, <<"example@email.com">>, DefaultTemplate)

\* The 'alertSettings' key of the store: absent, or a settings object.
NoStored == [present |-> FALSE, value |-> DashboardDefaultSettings]
Stored(value) == [present |-> TRUE, value |-> value]

\* useLocalStorage(key, initialValue) at mount: the stored value, or the
\* caller's default when the key is absent.
useLocalStorage(stored, initialValue) ==
    IF stored.present THEN stored.value ELSE initialValue

\* ---------------------------------------------------- alert evaluation
\* Number.prototype.toFixed(1) of a number of tenths
ToFixed1(x) == ToString(x \div 10) \o "." \o ToString(x % 10)

\* formatDateTime(date)
formatDateTime(date) == "time" \o ToString(date)

\* ReplaceFirst that replaces every occurrence
ReplaceEvery(text, token, value) ==
    [i \in 1..Len(text) |-> IF text[i] = token THEN value ELSE text[i]]

\* String.prototype.replace(token, value) with a string pattern: the first
\* occurrence only.  (this is the value of text, evaluated once.)
ReplaceFirst(text, token, value) ==
    CHOOSE replaced \in
        {LET found == {i \in 1..Len(this) : this[i] = token}
         IN IF found = {} THEN this
            ELSE [this EXCEPT ![CHOOSE i \in found : \A j \in found : i <= j] = value]
           : this \in {text}} : TRUE

\* const body = alertSettings.emailTemplate.replace(...)...
RenderBody(emailTemplate, event) ==
    ReplaceFirst(
      ReplaceFirst(
        ReplaceFirst(
          ReplaceFirst(
            ReplaceFirst(emailTemplate, "{magnitude}", ToFixed1(event.magnitude)),
            "{location}", event.location),
          "{depth}", ToFixed1(event.depth) \o " km"),
        "{time}", formatDateTime(event.updated)),
      "{link}", event.link)

\* NewAlert that renders {time} from the clock
NewAlertClockInBody(event, settings, t) ==
    [id |-> <<event.id, t>>,
     timestamp |-> t,
     event |-> event,
     body |-> RenderBody(settings.emailTemplate, [event EXCEPT !.updated = t])]

\* const newAlert: GeneratedAlert = {...}; t is what new Date() reads
NewAlert(event, settings, t) ==
    [id |-> <<event.id, t>>,
     timestamp |-> t,
     event |-> event,
     body |-> RenderBody(settings.emailTemplate, event)]

\* EffectReturnsEarly without the test of the recipients
EffectReturnsEarlyIgnoringRecipients(settings, evs) ==
    \/ ~settings.notificationsEnabled
    \/ Len(evs) = 0

\* the early return of the effect
EffectReturnsEarly(settings, evs) ==
    \/ ~settings.notificationsEnabled
    \/ Len(settings.recipients) = 0
    \/ Len(evs) = 0

\* AlreadyProcessed that looks at the id added last
AlreadyProcessedLastOnly(newProcessed, event) ==
    /\ newProcessed # <<>>
    /\ event.id = newProcessed[Len(newProcessed)]

\* AlreadyProcessed that never finds the id
AlreadyProcessedNever(newProcessed, event) == FALSE

\* newProcessed.has(event.id)
AlreadyProcessed(newProcessed, event) == event.id \in Range(newProcessed)

\* MeetsThreshold with > for >=
MeetsThresholdStrictly(event, settings) == event.magnitude > settings.minMagnitude

\* event.magnitude >= alertSettings.minMagnitude
MeetsThreshold(event, settings) == event.magnitude >= settings.minMagnitude

\* AddProcessed that keeps the new id alone
AddProcessedReplaces(newProcessed, event) == <<event.id>>

\* AddProcessed that forgets the id
AddProcessedForgets(newProcessed, event) == newProcessed

\* newProcessed.add(event.id)
AddProcessed(newProcessed, event) ==
    IF event.id \in Range(newProcessed) THEN newProcessed
    ELSE Append(newProcessed, event.id)

\* BelowThreshold that marks the event processed all the same
BelowThresholdMarks(newProcessed, event) == Append(newProcessed, event.id)

\* the if (event.magnitude >= ...) has no else: an event below the threshold
\* leaves newProcessed as it is
BelowThreshold(newProcessed, event) == newProcessed

\* One call of the callback of events.forEach, from the accumulators acc =
\* [newProcessed, newAlerts]
ForEachCallback(acc, event, settings, t) ==
    IF AlreadyProcessed(acc.newProcessed, event) THEN acc
    ELSE IF MeetsThreshold(event, settings)
    THEN [newProcessed |-> AddProcessed(acc.newProcessed, event),
          newAlerts |-> Append(acc.newAlerts, NewAlert(event, settings, t))]
    ELSE [acc EXCEPT !.newProcessed = BelowThreshold(@, event)]

\* The calls for evs[lo..hi], one by one in their order (the range is halved
\* to keep the evaluation shallow).
RECURSIVE ForEachRange(_, _, _, _, _, _)
ForEachRange(acc, evs, lo, hi, settings, t) ==
    IF lo > hi THEN acc
    ELSE IF lo = hi THEN ForEachCallback(acc, evs[lo], settings, t)
    ELSE \* half is the value of the first half, evaluated once
         CHOOSE all \in
             {ForEachRange(half, evs, (lo + hi) \div 2 + 1, hi, settings, t)
                : half \in {ForEachRange(acc, evs, lo, (lo + hi) \div 2, settings, t)}} : TRUE

\* events.forEach(event => {...}) from the accumulators newProcessed and
\* newAlerts: [newProcessed, newAlerts] at the end of the loop
ForEachEvent(evs, settings, newProcessed, newAlerts, t) ==
    ForEachRange([newProcessed |-> newProcessed, newAlerts |-> newAlerts],
                 evs, 1, Len(evs), settings, t)

\* PrependAlerts that puts the new alerts after the previous log
PrependAlertsAppends(newAlerts, prev) == Slice0(prev \o newAlerts, MaxAlerts)

\* PrependAlerts that cuts the previous log alone
PrependAlertsCutsPrev(newAlerts, prev) == newAlerts \o Slice0(prev, MaxAlerts)

\* setGeneratedAlerts(prev => [...newAlerts, ...prev].slice(0, 50))
PrependAlerts(newAlerts, prev) == Slice0(newAlerts \o prev, MaxAlerts)

\* ------------------------------------------------------ summary counts
\* EarthquakeEvent['alertLevel']
AlertLevels == {"none", "info", "advisory", "watch", "warning"}

\* the filter of activeAlerts in the useMemo of TsunamiDashboard
CountsAsActive(e) == e.alertLevel = "watch" \/ e.alertLevel = "warning" \/ e.alertLevel = "advisory"

\* the filter of highPriorityAlerts in the useMemo of TsunamiDashboard
CountsAsHighPriority(e) == e.alertLevel = "warning"

\* ListedByCard that lists the events of level info too
ListedByCardWithInfo(e) == e.alertLevel # "none"

\* the filter of activeAlerts in TsunamiAlertsCard
ListedByCard(e) == e.alertLevel # "none" /\ e.alertLevel # "info"

\* activeAlerts.length, the value of the 'Active Alerts' StatCard
ActiveAlertsCount(evs) == Len(SelectSeq(evs, CountsAsActive))

\* highPriorityAlerts.length, the value of the 'High Priority' StatCard
HighPriorityCount(evs) == Len(SelectSeq(evs, CountsAsHighPriority))

\* the number of entries TsunamiAlertsCard lists
CardEntriesCount(evs) == Len(SelectSeq(evs, ListedByCard))

\* ------------------------------------------------------------- inputs
EventIds == 1..MaxEventId
Magnitudes == {InfoMagnitude, AdvisoryMagnitude}
MinMagnitudes == {InfoMagnitude, DefaultMinMagnitude}
RecipientPool == {"example@email.com"}

\* The feeds over the features S: every sequence of features of S that lists
\* each id at most once (an id is unique per source record), in the order of
\* the ids.
FeedsOver(S) ==
    LET ids == {x.id : x \in S}
    IN {f \in UNION {[1..k -> S] : k \in 0..Cardinality(ids)} :
          \A i, j \in 1..Len(f) : i < j => f[i].id < f[j].id}

\* Features of the dashboard runs: no tsunami flag, one timestamp.  The feed
\* revises the magnitude of event 1 from fetch to fetch, and of no other.
MagnitudesOf(id) == IF id = 1 THEN Magnitudes ELSE {AdvisoryMagnitude}
DashboardFeatures ==
    UNION {{Feature(id, mag, 0, 1) : mag \in MagnitudesOf(id)} : id \in EventIds}

FailingResponses == {Response(k, <<>>) : k \in ThrowingKinds}
EmptyResponses == {Response(k, <<>>) : k \in {"nulljson", "nofeatures"}}
FeatureResponses(feeds) == {Response("features", f) : f \in feeds}

DashboardResponses ==
    FailingResponses \cup EmptyResponses
        \cup FeatureResponses(FeedsOver(DashboardFeatures))

\* ---------------------------------------------------------------- state
VARIABLES
    events,            \* useState<EarthquakeEvent[]>([])
    isInitialLoad,     \* useState<boolean>(true)
    isRefreshing,      \* useState<boolean>(false)
    error,             \* useState<string | null>(null)
    alertSettings,     \* TsunamiDashboard's useLocalStorage('alertSettings')
    processedEvents,   \* useLocalStorage('processedEvents'), and the stored key
    generatedAlerts,   \* useLocalStorage('generatedAlerts'), and the stored key
    settings,          \* EmailSettingsCard's useLocalStorage('alertSettings')
    storedSettings,    \* the 'alertSettings' key of the store
    inflight,          \* the feed requests awaiting a response, by caller
    effect,            \* the evaluation effect: "idle", or due to run because
                       \* the component mounted ("mount"), because setEvents
                       \* changed its dependencies ("deps") or because its own
                       \* setProcessedEvents changed them ("self")
    now,               \* what new Date() reads
    wire,              \* the response the feed is fixed to give, if it is
    theme,             \* ThemeProvider's useLocalStorage('theme'), and the
                       \* stored key
    created,           \* history: alerts ever created, per event id
    skipped,           \* history: ids last evaluated below the threshold
    lastRun,           \* history: what the effect run just done started from,
                       \* and its local newAlerts
    lastLoad,          \* history: what the latest loadData started from, and
                       \* the response it got
    click              \* history: "ignored" when the step just done is a
                       \* Refresh click that returned at once

vars == <<events, isInitialLoad, isRefreshing, error, alertSettings,
          processedEvents, generatedAlerts, settings, storedSettings, inflight,
          effect, now, wire, theme, created, skipped, lastRun, lastLoad, click>>

dashboardVars == <<events, isInitialLoad, isRefreshing, error, alertSettings,
                   processedEvents, generatedAlerts, inflight, effect>>
cardVars == <<settings, storedSettings>>
historyVars == <<created, skipped>>
envVars == <<now, wire>>

NoRun == [valid |-> FALSE]
NoLoad == [valid |-> FALSE]

\* history kept by every step that is not part of a load
KeepLoad == lastLoad' = IF inflight = <<>> THEN NoLoad ELSE lastLoad

\* the history of a load that got its response; what the load started from is
\* kept unless the response is a features document
LoadEnded(response) ==
    IF response.kind = "features"
    THEN [valid |-> TRUE, response |-> response.kind, events |-> <<>>,
          processedEvents |-> <<>>, generatedAlerts |-> <<>>]
    ELSE [lastLoad EXCEPT !.response = response.kind]

LoadStarted ==
    [valid |-> TRUE, response |-> "pending", events |-> events,
     processedEvents |-> processedEvents, generatedAlerts |-> generatedAlerts]

\* The page freshly loaded, with the store holding `stored` under
\* 'alertSettings' and nothing else: every useState and useLocalStorage has
\* its initial value, initialFetch has called loadData, and the evaluation
\* effect is due for its first run.
InitFrom(stored, response) ==
    /\ events = <<>>
    /\ isInitialLoad = TRUE
    /\ isRefreshing = FALSE
    /\ error = NoError
    /\ storedSettings = stored
    /\ alertSettings = useLocalStorage(stored, DashboardDefaultSettings)
    /\ settings = useLocalStorage(stored, CardDefaultSettings)
    /\ processedEvents = <<>>
    /\ generatedAlerts = <<>>
    /\ inflight = <<"initial">>
    /\ effect = "mount"
    /\ now = 0
    /\ wire = response
    /\ theme = "dark"
    /\ created = [id \in {} |-> 0]
    /\ skipped = {}
    /\ lastRun = NoRun
    /\ lastLoad = [valid |-> TRUE, response |-> "pending", events |-> <<>>,
                   processedEvents |-> <<>>, generatedAlerts |-> <<>>]
    /\ click = "none"

\* a first visit: nothing is stored
Init == InitFrom(NoStored, NoResponse)

\* -------------------------------------------------------------- history
Count(id) == IF id \in DOMAIN created THEN created[id] ELSE 0

AlertsFor(alerts, id) == Cardinality({i \in 1..Len(alerts) : alerts[i].event.id = id})

Min(a, b) == IF a <= b THEN a ELSE b

Record(newAlerts) ==
    LET ids == DOMAIN created \cup {newAlerts[i].event.id : i \in 1..Len(newAlerts)}
    IN created' = [id \in ids |-> Min(Count(id) + AlertsFor(newAlerts, id), MaxCreated)]

\* --------------------------------------------------------------- actions
\* The alert evaluation effect, run once.
RunEffect ==
    /\ effect # "idle"
    /\ LET early == EffectReturnsEarly(alertSettings, events)
           loop == ForEachEvent(events, alertSettings, processedEvents, <<>>, now)
           newAlerts == IF early THEN <<>> ELSE loop.newAlerts
           alerted == {newAlerts[i].event.id : i \in 1..Len(newAlerts)}
           below == IF early THEN {}
                    ELSE {e.id : e \in {x \in Range(events) :
                              /\ ~AlreadyProcessed(processedEvents, x)
                              /\ ~MeetsThreshold(x, alertSettings)}}
       IN /\ IF Len(newAlerts) > 0
             THEN /\ generatedAlerts' = PrependAlerts(newAlerts, generatedAlerts)
                  /\ processedEvents' = loop.newProcessed
                  /\ effect' = "self"
             ELSE /\ UNCHANGED <<generatedAlerts, processedEvents>>
                  /\ effect' = "idle"
          /\ Record(newAlerts)
          /\ skipped' = (skipped \cup below) \ alerted
          /\ lastRun' = [valid |-> TRUE, cause |-> effect, early |-> early,
                         events |-> events, alertSettings |-> alertSettings,
                         processedEvents |-> processedEvents,
                         generatedAlerts |-> generatedAlerts,
                         skipped |-> skipped, newAlerts |-> newAlerts,
                         now |-> now]
    /\ KeepLoad
    /\ click' = "none"
    /\ UNCHANGED <<events, isInitialLoad, isRefreshing, error, alertSettings,
                   inflight, envVars, theme, cardVars>>

\* HandleRefresh without the test of isRefreshing
HandleRefreshUnguarded ==
    /\ effect = "idle"
    /\ ~isInitialLoad
    /\ click' = "none"
    /\ isRefreshing' = TRUE
    /\ error' = NoError
    /\ inflight' = Append(inflight, "refresh")
    /\ lastLoad' = LoadStarted
    /\ lastRun' = NoRun
    /\ UNCHANGED <<events, isInitialLoad, alertSettings, processedEvents,
                   generatedAlerts, effect, envVars, theme, cardVars, historyVars>>

\* handleRefresh, up to the await of loadData's fetch; a click while
\* isRefreshing returns at once.
HandleRefresh ==
    /\ effect = "idle"
    /\ ~isInitialLoad
    /\ IF isRefreshing
       THEN /\ click' = "ignored"
            /\ UNCHANGED <<isRefreshing, error, inflight, lastLoad>>
       ELSE /\ click' = "none"
            /\ isRefreshing' = TRUE
            /\ error' = NoError
            /\ inflight' = Append(inflight, "refresh")
            /\ lastLoad' = LoadStarted
    /\ lastRun' = NoRun
    /\ UNCHANGED <<events, isInitialLoad, alertSettings, processedEvents,
                   generatedAlerts, effect, envVars, theme, cardVars, historyVars>>

\* Finally without the finally clause of handleRefresh
FinallyOfInitialFetchOnly(caller) ==
    IF caller = "initial"
    THEN isInitialLoad' = FALSE /\ UNCHANGED isRefreshing
    ELSE UNCHANGED <<isRefreshing, isInitialLoad>>

\* the finally clause of the caller of loadData
Finally(caller) ==
    IF caller = "initial"
    THEN isInitialLoad' = FALSE /\ UNCHANGED isRefreshing
    ELSE isRefreshing' = FALSE /\ UNCHANGED isInitialLoad

RemoveAt(s, i) == SubSeq(s, 1, i - 1) \o SubSeq(s, i + 1, Len(s))

\* LoadDataResolved that also empties the processed set
LoadDataResolvedResetsProcessed(data) ==
    /\ events' = data
    /\ effect' = "deps"
    /\ processedEvents' = <<>>
    /\ UNCHANGED <<error, generatedAlerts>>

\* loadData after fetchTsunamiData resolved with data: setEvents(data)
LoadDataResolved(data) ==
    /\ events' = data
    /\ effect' = "deps"
    /\ UNCHANGED <<error, processedEvents, generatedAlerts>>

\* LoadDataRejected that also empties the event list
LoadDataRejectedClearsEvents ==
    /\ error' = ErrorMessage
    /\ events' = <<>>
    /\ UNCHANGED <<effect, processedEvents, generatedAlerts>>

\* LoadDataRejected that makes the effect due
LoadDataRejectedRunsEffect ==
    /\ error' = ErrorMessage
    /\ effect' = "deps"
    /\ UNCHANGED <<events, processedEvents, generatedAlerts>>

\* loadData's catch
LoadDataRejected ==
    /\ error' = ErrorMessage
    /\ UNCHANGED <<events, effect, processedEvents, generatedAlerts>>

\* A request gets a response with which fetchTsunamiData resolves.
LoadDataResolves(responses) ==
    /\ effect = "idle"
    /\ \E i \in 1..Len(inflight), response \in responses :
        LET result == fetchTsunamiData(response) IN
        /\ ~result.threw
        /\ LoadDataResolved(result.events)
        /\ Finally(inflight[i])
        /\ inflight' = RemoveAt(inflight, i)
        /\ lastLoad' = LoadEnded(response)
    /\ lastRun' = NoRun
    /\ click' = "none"
    /\ UNCHANGED <<alertSettings, envVars, theme, cardVars, historyVars>>

\* A request gets a response with which fetchTsunamiData throws.
LoadDataRejects(responses) ==
    /\ effect = "idle"
    /\ \E i \in 1..Len(inflight), response \in responses :
        LET result == fetchTsunamiData(response) IN
        /\ result.threw
        /\ LoadDataRejected
        /\ Finally(inflight[i])
        /\ inflight' = RemoveAt(inflight, i)
        /\ lastLoad' = LoadEnded(response)
    /\ lastRun' = NoRun
    /\ click' = "none"
    /\ UNCHANGED <<alertSettings, envVars, theme, cardVars, historyVars>>

\* setSettings(s => ...) of the card: the new value is stored.
SetSettings(value) ==
    /\ settings' = value
    /\ storedSettings' = Stored(value)

\* what an edit in the settings card leaves alone; the card is rendered once
\* the initial load is over
CardEdit ==
    /\ effect = "idle"
    /\ ~isInitialLoad
    /\ lastRun' = NoRun
    /\ KeepLoad
    /\ click' = "none"
    /\ UNCHANGED <<dashboardVars, envVars, theme, historyVars>>

\* onClick of the Enable Email Alerts switch
ToggleNotifications ==
    /\ CardEdit
    /\ SetSettings([settings EXCEPT !.notificationsEnabled = ~@])

\* onChange of the Min. Magnitude slider (in the fieldset that is disabled
\* while notifications are off)
SetMinMagnitude ==
    /\ CardEdit
    /\ settings.notificationsEnabled
    /\ \E m \in MinMagnitudes \ {settings.minMagnitude} :
        SetSettings([settings EXCEPT !.minMagnitude = m])

\* handleAddRecipient
HandleAddRecipient ==
    /\ CardEdit
    /\ settings.notificationsEnabled
    /\ \E newRecipient \in RecipientPool :
        /\ newRecipient \notin Range(settings.recipients)
        /\ SetSettings([settings EXCEPT !.recipients = Append(@, newRecipient)])

\* handleRemoveRecipient
HandleRemoveRecipient ==
    /\ CardEdit
    /\ settings.notificationsEnabled
    /\ \E recipientToRemove \in Range(settings.recipients) :
        LET Other(r) == r # recipientToRemove
        IN SetSettings([settings EXCEPT !.recipients = SelectSeq(@, Other)])

\* the templates the user types: the default one, and one with {magnitude}
\* and {link} twice and with {depth}
TwiceTemplate ==
    <<"M", "{magnitude}", " (", "{magnitude}", ") ", "{depth}", " deep near ",
      "{location}", " at ", "{time}", ": ", "{link}", " ", "{link}">>

Templates == {DefaultTemplate, TwiceTemplate}

\* onChange of the Email Template textarea (in the fieldset that is disabled
\* while notifications are off)
SetEmailTemplate ==
    /\ CardEdit
    /\ settings.notificationsEnabled
    /\ \E value \in Templates \ {settings.emailTemplate} :
        SetSettings([settings EXCEPT !.emailTemplate = value])

\* toggleTheme, from the button of the header
ToggleTheme ==
    /\ effect = "idle"
    /\ ~isInitialLoad
    /\ theme' = IF theme = "light" THEN "dark" ELSE "light"
    /\ lastRun' = NoRun
    /\ KeepLoad
    /\ click' = "none"
    /\ UNCHANGED <<dashboardVars, cardVars, envVars, historyVars>>

\* The page is loaded again: every component mounts anew and reads its keys
\* of the store; the requests of the page before are gone.
Reload ==
    /\ effect = "idle"
    /\ events' = <<>>
    /\ isInitialLoad' = TRUE
    /\ isRefreshing' = FALSE
    /\ error' = NoError
    /\ alertSettings' = useLocalStorage(storedSettings, DashboardDefaultSettings)
    /\ settings' = useLocalStorage(storedSettings, CardDefaultSettings)
    /\ inflight' = <<"initial">>
    /\ effect' = "mount"
    /\ lastRun' = NoRun
    /\ lastLoad' = [valid |-> TRUE, response |-> "pending", events |-> <<>>,
                    processedEvents |-> processedEvents,
                    generatedAlerts |-> generatedAlerts]
    /\ click' = "none"
    /\ UNCHANGED <<processedEvents, generatedAlerts, storedSettings, envVars, theme,
                   historyVars>>

\* new Date() reads a later time
Tick ==
    /\ now < MaxTime
    /\ now' = now + 1
    /\ lastRun' = NoRun
    /\ KeepLoad
    /\ click' = "none"
    /\ UNCHANGED <<dashboardVars, cardVars, historyVars, wire, theme>>

Next ==
    \/ RunEffect
    \/ HandleRefresh
    \/ LoadDataResolves(DashboardResponses)
    \/ LoadDataRejects(DashboardResponses)
    \/ ToggleNotifications
    \/ SetMinMagnitude
    \/ Reload

Spec == Init /\ [][Next]_vars

\* ------------------------------------------------ the settings card, whole
\* Every edit of the card, over feeds of event 1 alone.
CardFeatures == {Feature(1, mag, 0, 1) : mag \in Magnitudes}

CardResponses ==
    FailingResponses \cup EmptyResponses \cup FeatureResponses(FeedsOver(CardFeatures))

NextCard ==
    \/ RunEffect
    \/ HandleRefresh
    \/ LoadDataResolves(CardResponses)
    \/ LoadDataRejects(CardResponses)
    \/ ToggleNotifications
    \/ SetMinMagnitude
    \/ HandleAddRecipient
    \/ HandleRemoveRecipient
    \/ Reload
    \/ Tick

SpecCard == Init /\ [][NextCard]_vars

\* ------------------------------------------------- every edit of the user
\* Every control of the page, over feeds of event 1 alone.
NextEdits ==
    \/ RunEffect
    \/ HandleRefresh
    \/ LoadDataResolves(CardResponses)
    \/ LoadDataRejects(CardResponses)
    \/ ToggleNotifications
    \/ SetMinMagnitude
    \/ HandleAddRecipient
    \/ HandleRemoveRecipient
    \/ SetEmailTemplate
    \/ ToggleTheme
    \/ Reload

SpecEdits == Init /\ [][NextEdits]_vars

\* ------------------------------------------------------- many alerts
\* Feeds of many events at or above every threshold, for a user who has
\* stored the settings of the card as they come.
Block(lo, hi) == [i \in 1..(hi - lo + 1) |-> Feature(lo + i - 1, AdvisoryMagnitude, 0, 1)]

BlockCuts == {0, 20, 40, MaxBlock}

BlockFeeds == {Block(lo + 1, hi) : lo \in BlockCuts, hi \in BlockCuts} \ {<<>>}

BlockResponses == FailingResponses \cup EmptyResponses \cup FeatureResponses(BlockFeeds)

InitBlocks == InitFrom(Stored(CardDefaultSettings), NoResponse)

NextBlocks ==
    \/ RunEffect
    \/ HandleRefresh
    \/ LoadDataResolves(BlockResponses)
    \/ LoadDataRejects(BlockResponses)
    \/ Reload
    \/ Tick

SpecBlocks == InitBlocks /\ [][NextBlocks]_vars

\* ------------------------------------------- one session, requests answered
\* One session of the page of a user who has stored the settings of the
\* card: every request of the feed gets its response in the end, and an
\* effect that is due runs.
LoadDataSettles == LoadDataResolves(CardResponses) \/ LoadDataRejects(CardResponses)

NextSession ==
    \/ RunEffect
    \/ HandleRefresh
    \/ LoadDataResolves(CardResponses)
    \/ LoadDataRejects(CardResponses)
    \/ ToggleNotifications
    \/ SetMinMagnitude

SpecSession ==
    /\ InitBlocks
    /\ [][NextSession]_vars
    /\ WF_vars(RunEffect)
    /\ WF_vars(LoadDataSettles)

\* ------------------------------------------------------ the normalizer
\* The feed is fixed to one response, drawn from: every single record, with
\* or without magnitude and tsunami flag; and every feed of records of
\* distinct ids, in any order, with or without magnitude, of two timestamps.
BoundaryMagnitudes == {NoMag, 64, 65, 74, 75, 90}
Timestamps == {1, 2}

SingleFeeds ==
    {<<Feature(1, mag, tsunami, updated)>> :
        mag \in BoundaryMagnitudes, tsunami \in {0, 1}, updated \in Timestamps}

OrderFeatures ==
    {Feature(id, mag, 0, updated) :
        id \in 1..MaxFeedLen, mag \in {NoMag, AdvisoryMagnitude},
        updated \in Timestamps}

OrderFeeds ==
    LET ids == {x.id : x \in OrderFeatures}
    IN {f \in UNION {[1..k -> OrderFeatures] : k \in 0..Cardinality(ids)} :
          \A i, j \in 1..Len(f) : i # j => f[i].id # f[j].id}

\* every feed of records 1 and 2 of one timestamp, each of magnitude 6.4, 6.5
\* or 7.5, with or without the tsunami flag
LevelFeeds ==
    {<<Feature(1, mag[1], tsunami[1], 1), Feature(2, mag[2], tsunami[2], 1)>> :
        mag \in [1..2 -> {64, InfoMagnitude, AdvisoryMagnitude}],
        tsunami \in [1..2 -> {0, 1}]}

NormalizeResponses ==
    FailingResponses \cup EmptyResponses
        \cup FeatureResponses(SingleFeeds \cup OrderFeeds \cup LevelFeeds)

InitNormalize == \E response \in NormalizeResponses : InitFrom(NoStored, response)

NextNormalize ==
    \/ RunEffect
    \/ HandleRefresh
    \/ LoadDataResolves({wire})
    \/ LoadDataRejects({wire})

SpecNormalize == InitNormalize /\ [][NextNormalize]_vars

\* ------------------------------------------------------------ properties
AlertedEvents(alerts) == {alerts[i].event : i \in 1..Len(alerts)}

\* what the early return of the effect tests, of the run just done
RunWasGated ==
    \/ ~lastRun.alertSettings.notificationsEnabled
    \/ lastRun.alertSettings.recipients = <<>>
    \/ lastRun.events = <<>>

\* the events the run just done found unprocessed and at or above the
\* threshold
RunEligible ==
    {e \in Range(lastRun.events) :
        /\ e.id \notin Range(lastRun.processedEvents)
        /\ e.magnitude >= lastRun.alertSettings.minMagnitude}

\* C1: over fetches that succeed or fail, settings changes, reloads and
\* re-runs of the effect, no event id ever has more than one alert created
\* for it.
C1_AtMostOneAlertPerEvent == \A id \in DOMAIN created : created[id] <= 1

\* an evaluation, due to a new event list, met an event at or above the
\* threshold that had its alert already
C1_Witness ==
    /\ lastRun.valid /\ lastRun.cause = "deps" /\ ~RunWasGated
    /\ \E e \in Range(lastRun.events) :
        /\ e.id \in Range(lastRun.processedEvents)
        /\ e.magnitude >= lastRun.alertSettings.minMagnitude
        /\ Count(e.id) = 1

\* C2: after a run that generated alerts, evaluating again with the same
\* events and settings and the processed set that run produced yields no
\* alert, and the re-run leaves the processed set and the log as they are.
C2_SecondRunIdempotent ==
    /\ (effect = "self" =>
          LET again == ForEachEvent(events, alertSettings, processedEvents, <<>>, now)
          IN again.newAlerts = <<>> /\ again.newProcessed = processedEvents)
    /\ (lastRun.valid /\ lastRun.cause = "self" =>
          /\ lastRun.newAlerts = <<>>
          /\ processedEvents = lastRun.processedEvents
          /\ generatedAlerts = lastRun.generatedAlerts)

\* the re-run after a run that generated alerts has been done
C2_Witness ==
    /\ lastRun.valid /\ lastRun.cause = "self" /\ ~RunWasGated
    /\ generatedAlerts # <<>>
    /\ \E e \in Range(lastRun.events) : e.id \in Range(lastRun.processedEvents)

\* C3: an event evaluated below the threshold is not put in the processed
\* set; when a later evaluation finds it at or above the threshold (the
\* threshold lowered), it gets its alert.
C3_SkippedStaysEligible ==
    /\ skipped \cap Range(processedEvents) = {}
    /\ (lastRun.valid /\ ~RunWasGated =>
          \A e \in Range(lastRun.events) :
              (e.id \in lastRun.skipped
                  /\ e.magnitude >= lastRun.alertSettings.minMagnitude)
              => e \in AlertedEvents(lastRun.newAlerts))

\* an event skipped under the default threshold got its alert once the
\* threshold was lowered to its magnitude
C3_Witness ==
    /\ lastRun.valid
    /\ lastRun.alertSettings.minMagnitude < DefaultMinMagnitude
    /\ \E e \in AlertedEvents(lastRun.newAlerts) :
        /\ e.id \in lastRun.skipped
        /\ e.magnitude < DefaultMinMagnitude

\* C4: with notifications enabled, a recipient and events, a run generates
\* one alert for each event that is unprocessed and at or above the
\* threshold (equality included), none for any other event, and adds the ids
\* of exactly those events to the processed set.
C4_ExactlyTheEligible ==
    lastRun.valid /\ ~RunWasGated =>
        /\ AlertedEvents(lastRun.newAlerts) = RunEligible
        /\ Len(lastRun.newAlerts) = Cardinality(RunEligible)
        /\ Range(processedEvents)
             = Range(lastRun.processedEvents) \cup {e.id : e \in RunEligible}

\* a run alerted an event of magnitude equal to the threshold and passed over
\* another event
C4_Witness ==
    /\ lastRun.valid /\ ~RunWasGated
    /\ \E e \in RunEligible : e.magnitude = lastRun.alertSettings.minMagnitude
    /\ Range(lastRun.events) \ RunEligible # {}
    /\ Len(lastRun.newAlerts) = 1

\* C5: with notifications disabled, or no recipient, or no event, a run
\* generates no alert and leaves the processed set and the log as they are.
C5_GatedRunChangesNothing ==
    lastRun.valid /\ RunWasGated =>
        /\ lastRun.newAlerts = <<>>
        /\ processedEvents = lastRun.processedEvents
        /\ generatedAlerts = lastRun.generatedAlerts

\* a run under settings loaded from the store (threshold lowered, last
\* recipient removed), notifications enabled and an unprocessed event above
\* the threshold
C5_Witness ==
    /\ lastRun.valid
    /\ storedSettings.present
    /\ lastRun.alertSettings = storedSettings.value
    /\ lastRun.alertSettings.minMagnitude < DefaultMinMagnitude
    /\ lastRun.alertSettings.notificationsEnabled
    /\ lastRun.alertSettings.recipients = <<>>
    /\ RunEligible # {}

\* C6: the log never holds more than 50 alerts.
C6_LogAtMostFifty == Len(generatedAlerts) <= 50

\* one run generated more than 50 alerts
C6_Witness ==
    /\ lastRun.valid
    /\ Len(lastRun.newAlerts) > 50
    /\ Len(generatedAlerts) = 50

\* C7: when fetch() rejects, the status is not 2xx or the body does not
\* parse, the error message is set and the events, the processed set and
\* the log are what they were when the load started.
C7_FailedLoadKeepsState ==
    lastLoad.valid /\ lastLoad.response \in {"transport", "status", "unparsable"} =>
        /\ error = ErrorMessage
        /\ events = lastLoad.events
        /\ processedEvents = lastLoad.processedEvents
        /\ generatedAlerts = lastLoad.generatedAlerts

\* a refresh failed on the status with events loaded and an alert logged
C7_Witness ==
    /\ lastLoad.valid /\ lastLoad.response = "status"
    /\ events # <<>>
    /\ generatedAlerts # <<>>
    /\ error = ErrorMessage

\* C8: every response that is not 2xx or whose body is malformed (a JSON
\* document without a features array included) sets the error message and
\* leaves the loaded events in place.
C8_MalformedIsFailure ==
    (/\ lastLoad.valid
     /\ lastLoad.response \in {"status", "unparsable", "badrecord", "nulljson", "nofeatures"})
    => (error = ErrorMessage /\ events = lastLoad.events)

\* C9: at most one request is in flight; a Refresh click during a refresh
\* leaves that one request in flight and starts none, and when a response
\* has arrived no request is in flight.
C9_OneRequestAtATime ==
    /\ Len(inflight) <= 1
    /\ (click = "ignored" => isRefreshing /\ inflight = <<"refresh">>)
    /\ (lastLoad.valid /\ lastLoad.response # "pending" => inflight = <<>>)

\* a Refresh click came while the refresh was in flight
C9_Witness ==
    /\ click = "ignored"
    /\ inflight = <<"refresh">>
    /\ lastLoad.valid /\ lastLoad.response = "pending"

\* the record of the feed from which the event e was built
RecordOf(e) == CHOOSE f \in Range(wire.features) : f.id = e.id

\* C10: the alert level is warning for a record with the tsunami flag,
\* whatever its magnitude; else advisory from 7.5; else info from 6.5; else
\* none.
C10_LevelByFirstMatch ==
    \A e \in Range(events) :
        LET tsunami == RecordOf(e).properties.tsunami = 1
            mag == RecordOf(e).properties.mag
        IN e.alertLevel =
             IF tsunami THEN "warning"
             ELSE IF mag >= 75 THEN "advisory"
             ELSE IF mag >= 65 THEN "info"
             ELSE "none"

\* a record of magnitude 9.0 with the tsunami flag was classified
C10_Witness ==
    \E e \in Range(events) :
        /\ RecordOf(e).properties.tsunami = 1
        /\ RecordOf(e).properties.mag = 90
        /\ e.alertLevel = "warning"

\* the records of the fixed response that have a magnitude
WithMagnitude == {f \in Range(wire.features) : f.properties.mag # NoMag}

\* C11: once the feed's records are loaded, no event comes from a record
\* without magnitude, every record with a magnitude has exactly one event,
\* and the load has not failed.
C11_NullMagnitudeDropped ==
    lastLoad.valid /\ lastLoad.response = "features" =>
        /\ \A e \in Range(events) :
              \E f \in WithMagnitude : f.id = e.id /\ e.magnitude = f.properties.mag
        /\ \A f \in WithMagnitude :
              Cardinality({i \in 1..Len(events) : events[i].id = f.id}) = 1
        /\ Len(events) = Cardinality(WithMagnitude)
        /\ error = NoError

\* a feed of records with and without magnitude was loaded
C11_Witness ==
    /\ lastLoad.valid /\ lastLoad.response = "features"
    /\ Len(wire.features) >= 3
    /\ Len(events) >= 1
    /\ Len(events) < Len(wire.features)
    /\ wire.features[1].properties.mag = NoMag

\* the place in the fixed response of the record with this id
PlaceOf(id) == CHOOSE k \in 1..Len(wire.features) : wire.features[k].id = id

\* C12: once the feed's records are loaded, the events are in descending
\* order of updated, and events of equal updated are in the order of their
\* records in the feed.
C12_SortedDescendingStable ==
    lastLoad.valid /\ lastLoad.response = "features" =>
        \A i, j \in 1..Len(events) :
            i < j =>
                /\ events[i].updated >= events[j].updated
                /\ (events[i].updated = events[j].updated
                      => PlaceOf(events[i].id) < PlaceOf(events[j].id))

\* a feed whose first record is the oldest, followed by two records of one
\* later timestamp, was loaded
C12_Witness ==
    /\ lastLoad.valid /\ lastLoad.response = "features"
    /\ Len(events) = 3
    /\ events[1].updated = events[2].updated
    /\ events[2].updated > events[3].updated
    /\ wire.features[1].id = events[3].id

\* the local newAlerts of one evaluation of the effect from the given events,
\* settings and processed ids, with the clock reading t
EvaluationAt(evs, given, processed, t) ==
    IF EffectReturnsEarly(given, evs) THEN <<>>
    ELSE ForEachEvent(evs, given, processed, <<>>, t).newAlerts

\* the alerts without what they take from the clock
Unstamped(alerts) ==
    [i \in 1..Len(alerts) |-> [event |-> alerts[i].event, body |-> alerts[i].body]]

\* the evaluation of the inputs of the run just done, with the clock reading t
LastRunAt(t) ==
    EvaluationAt(lastRun.events, lastRun.alertSettings, lastRun.processedEvents, t)

\* C13 (amended): an evaluation of the same events, settings and processed
\* ids as the run just done gives the same alerts, in the same order, up to
\* their ids and timestamps, whatever the clock reads; and the very same
\* alerts when the clock reads the same.
C13_DeterministicUpToClock ==
    lastRun.valid =>
        /\ LastRunAt(lastRun.now) = lastRun.newAlerts
        /\ \A t \in 0..MaxTime : Unstamped(LastRunAt(t)) = Unstamped(lastRun.newAlerts)

\* a run generated an alert after the clock had moved
C13_Witness ==
    /\ lastRun.valid
    /\ lastRun.newAlerts # <<>>
    /\ lastRun.now > 0

\* C13: an evaluation of the same events, settings and processed ids as the
\* run just done gives the same alerts, ids and timestamps included,
\* whatever the clock reads.
C13_DeterministicInTriple ==
    lastRun.valid => \A t \in 0..MaxTime : LastRunAt(t) = lastRun.newAlerts

\* C14: a step that changes the processed set or the log is a run of the
\* evaluation effect; a fetch starting, succeeding or failing, a Refresh
\* click, an edit of the settings and a theme toggle leave both as they are.
C14_OnlyEvaluationWrites ==
    [][(processedEvents' # processedEvents \/ generatedAlerts' # generatedAlerts)
          => RunEffect]_vars

\* with an alert in the log: a load that started then has failed, the theme
\* has been toggled, the template edited and the last recipient removed
C14_Witness ==
    /\ generatedAlerts # <<>> /\ processedEvents # <<>>
    /\ lastLoad.valid /\ lastLoad.response = "transport"
    /\ lastLoad.generatedAlerts # <<>>
    /\ theme = "light"
    /\ settings.emailTemplate = TwiceTemplate
    /\ settings.recipients = <<>>

\* the responses with which fetchTsunamiData resolves
ResolvingKinds == {"features", "nulljson", "nofeatures"}

\* C15 (amended): the effect becomes due when the page mounts and when a
\* fetch succeeds, and by no failed fetch, Refresh click or edit; a fetch that
\* succeeds always makes it due; and a run leaves it due once more exactly
\* when it generated alerts (its own update of the processed set).
C15_EvaluationTriggers ==
    [][/\ (effect = "idle" /\ effect' # "idle" =>
              \/ effect' = "deps" /\ lastLoad'.valid /\ lastLoad'.response \in ResolvingKinds
              \/ effect' = "mount" /\ isInitialLoad' /\ inflight' = <<"initial">>)
       /\ (lastLoad'.valid /\ lastLoad'.response \in ResolvingKinds => effect' = "deps")
       /\ (effect # "idle" =>
              /\ lastRun'.valid /\ lastRun'.cause = effect
              /\ effect' = IF lastRun'.newAlerts # <<>> THEN "self" ELSE "idle")]_vars

\* the run that follows a run's own update of the processed set has been
\* done, and nothing more is due
C15_Witness ==
    /\ lastRun.valid /\ lastRun.cause = "self"
    /\ lastRun.events # <<>>
    /\ effect = "idle"

\* C15: every run of the evaluation follows a replacement of the event list
\* by a fetch that succeeded.
C15_OnlyAfterSuccessfulFetch == lastRun.valid => lastRun.cause = "deps"

\* the place of the event with this id in the events of the run just done
PlaceInRun(id) == CHOOSE k \in 1..Len(lastRun.events) : lastRun.events[k].id = id

\* C16: after a run that generated alerts, the log is the new alerts, in
\* the order of their events in the event list, then the previous log in
\* its order, cut to the first 50 entries.
C16_NewFirstThenPreviousCut ==
    lastRun.valid /\ lastRun.newAlerts # <<>> =>
        LET new == lastRun.newAlerts
            prev == lastRun.generatedAlerts
            kept == Min(50, Len(new) + Len(prev))
        IN /\ Len(generatedAlerts) = kept
           /\ \A i \in 1..kept :
                 generatedAlerts[i] = IF i <= Len(new) THEN new[i] ELSE prev[i - Len(new)]
           /\ \A i, j \in 1..Len(new) :
                 i < j => PlaceInRun(new[i].event.id) < PlaceInRun(new[j].event.id)

\* a run generated fewer than 50 alerts on top of a log that then had to
\* lose entries
C16_Witness ==
    /\ lastRun.valid
    /\ Len(lastRun.newAlerts) \in 2..49
    /\ lastRun.generatedAlerts # <<>>
    /\ Len(lastRun.newAlerts) + Len(lastRun.generatedAlerts) > 50
    /\ Len(generatedAlerts) = 50

\* the placeholders the effect substitutes, and what it puts for each
Placeholders == {"{magnitude}", "{location}", "{depth}", "{time}", "{link}"}

ValueOf(token, event) ==
    CASE token = "{magnitude}" -> ToFixed1(event.magnitude)
      [] token = "{location}" -> event.location
      [] token = "{depth}" -> ToFixed1(event.depth) \o " km"
      [] token = "{time}" -> formatDateTime(event.updated)
      [] token = "{link}" -> event.link

\* C17: the body of an alert of the run just done is the template of that
\* run with the first occurrence of each placeholder replaced by the event's
\* value, and every other piece of the template, a later occurrence of a
\* placeholder included, as it is.
C17_FirstOccurrenceSubstituted ==
    lastRun.valid =>
        \A k \in 1..Len(lastRun.newAlerts) :
            LET body == lastRun.newAlerts[k].body
                event == lastRun.newAlerts[k].event
                template == lastRun.alertSettings.emailTemplate
            IN /\ Len(body) = Len(template)
               /\ \A i \in 1..Len(template) :
                     body[i] =
                        IF /\ template[i] \in Placeholders
                           /\ \A j \in 1..(i - 1) : template[j] # template[i]
                        THEN ValueOf(template[i], event)
                        ELSE template[i]

\* an alert was generated from the template that has {magnitude} and {link}
\* twice: the second {magnitude} is in its body
C17_Witness ==
    /\ lastRun.valid /\ lastRun.newAlerts # <<>>
    /\ lastRun.alertSettings.emailTemplate = TwiceTemplate
    /\ lastRun.newAlerts[1].body[2] = "7.5"
    /\ lastRun.newAlerts[1].body[4] = "{magnitude}"
    /\ lastRun.newAlerts[1].body[6] = "10.1 km"

\* C18: the event of every alert in the log has its id in the processed
\* set.
C18_LoggedIdsAreProcessed ==
    \A i \in 1..Len(generatedAlerts) :
        generatedAlerts[i].event.id \in Range(processedEvents)

\* the log holds alerts of two runs, and the page has been loaded again
\* since
C18_Witness ==
    /\ Len(generatedAlerts) = 2
    /\ generatedAlerts[1].event.id # generatedAlerts[2].event.id
    /\ Len(processedEvents) = 2
    /\ isInitialLoad
    /\ created = [id \in {1, 2} |-> 1]
    /\ generatedAlerts[1].event.id = processedEvents[2]

\* C19: when the effect is due because of its own update of the processed
\* set, the step that follows is its run, which generates no alert, updates
\* neither the processed set nor the log, and leaves the effect idle.
C19_RerunIsFixedPoint ==
    [][effect = "self" =>
          /\ lastRun'.valid /\ lastRun'.cause = "self"
          /\ lastRun'.newAlerts = <<>>
          /\ UNCHANGED <<processedEvents, generatedAlerts, events, alertSettings>>
          /\ effect' = "idle"]_vars

\* the re-run after a run that alerted two events has been done
C19_Witness ==
    /\ lastRun.valid /\ lastRun.cause = "self"
    /\ Len(lastRun.events) = 2
    /\ Len(generatedAlerts) = 2
    /\ processedEvents = lastRun.processedEvents
    /\ Len(processedEvents) = 2
    /\ effect = "idle"

\* C20: when every request gets its response, the refreshing flag set by a
\* Refresh click becomes false again and the initial-load flag becomes
\* false, whether the response is a success or a failure.
C20_FlagsEventuallyClear ==
    /\ isRefreshing ~> ~isRefreshing
    /\ isInitialLoad ~> ~isInitialLoad
    /\ (inflight # <<>>) ~> (inflight = <<>> /\ ~isRefreshing /\ ~isInitialLoad)

\* a refresh has failed, and both flags are false
C20_Witness ==
    /\ lastLoad.valid /\ lastLoad.response = "transport"
    /\ lastLoad.events # <<>>
    /\ error = ErrorMessage
    /\ ~isRefreshing /\ ~isInitialLoad
    /\ inflight = <<>>

\* C21: while nothing is stored under 'alertSettings', the dashboard
\* evaluates with its own default settings, which have no recipient (the
\* card's have one); no run generates an alert, the log and the processed
\* set stay empty.
C21_FreshSessionNeverAlerts ==
    ~storedSettings.present =>
        /\ alertSettings = DashboardDefaultSettings
        /\ alertSettings.recipients = <<>>
        /\ settings.recipients = <<"example@email.com">>
        /\ (lastRun.valid => lastRun.early /\ lastRun.newAlerts = <<>>)
        /\ generatedAlerts = <<>>
        /\ processedEvents = <<>>
        /\ created = [id \in {} |-> 0]

\* with nothing stored, the effect has run on two fetched events, one of
\* them at or above the default threshold
C21_Witness ==
    /\ ~storedSettings.present
    /\ lastRun.valid /\ lastRun.cause = "deps"
    /\ Len(lastRun.events) = 2
    /\ \E e \in Range(lastRun.events) : e.magnitude >= DefaultMinMagnitude
    /\ lastRun.alertSettings.notificationsEnabled

\* the two counts agree, and High Priority is at most Active Alerts, on evs
CountsAgree(evs) ==
    /\ ActiveAlertsCount(evs) = CardEntriesCount(evs)
    /\ HighPriorityCount(evs) <= ActiveAlertsCount(evs)

\* the lists of up to two events of any alert levels, watch included
LevelLists ==
    UNION {[1..k -> {[alertLevel |-> level] : level \in AlertLevels}] : k \in 0..2}

\* C22: on the events of the page, and on every list of events of any of
\* the five alert levels, the Active Alerts count equals the number of
\* entries of the tsunami alerts card, and the High Priority count is at
\* most the Active Alerts count.
C22_CountsAgree ==
    /\ CountsAgree(events)
    /\ \A evs \in LevelLists : CountsAgree(evs)

\* the page shows a warning and an event of level info: one of two events
\* is counted and listed
C22_Witness ==
    /\ Len(events) = 2
    /\ events[1].alertLevel = "info"
    /\ events[2].alertLevel = "warning"
    /\ ActiveAlertsCount(events) = 1
    /\ HighPriorityCount(events) = 1
    /\ CardEntriesCount(events) = 1

====
